---- MODULE Spec2Model ----
(***************************************************************************)
(* A model of the Smart Task Planner (src/app.py): the response            *)
(* extractor/validator generate_plan, the four persistence functions over  *)
(* the remote table task_plans, and the two views of the Streamlit script. *)
(*                                                                         *)
(* A text is a sequence of characters; a character is a one-character      *)
(* string, except the backquote, which a TLA+ string literal cannot hold   *)
(* and which is written BT.                                                *)
(***************************************************************************)
EXTENDS Integers, Sequences, FiniteSets, TLC

VARIABLES
    response,    \* what the AI collaborator does for the pending generate_plan call
    gen_goal,    \* the goal generate_plan is called with
    gen_result,  \* what generate_plan returned (None before the call)
    parser_input, \* the text generate_plan handed to json.loads (None if it did not)
    rows,        \* the remote table task_plans: a set of stored plan records
    next_id,     \* the id the store gives the next inserted row
    clock,       \* the store's clock: the created_at of the next inserted row
    db_call,     \* the last call of a persistence function: arguments, fault, outcome
    deleted,     \* the ids of the rows a successful delete_plan call named (history)
    goal_input,  \* st.session_state.goal_input: the goal text input
    selected_model,   \* the model the selectbox maps to
    search_query,     \* st.session_state.search_query: the search text input
    search_triggered, \* st.session_state.search_triggered
    run          \* the last script run: what triggered it and what it did, in order

ui_vars == <<goal_input, selected_model, search_query, search_triggered, run>>
extract_vars == <<response, gen_goal, gen_result, parser_input>>
store_vars == <<rows, next_id, clock, db_call, deleted>>
vars == <<response, gen_goal, gen_result, parser_input, rows, next_id, clock, db_call,
          deleted, goal_input, selected_model, search_query, search_triggered, run>>

None == [t |-> "none"]

\* ------------------------------------------------------------------ text

BT == "BT"
NL == "\n"
Quote == "\""

Chars(s) == [i \in 1..Len(s) |-> SubSeq(s, i, i)]

Fence == <<BT, BT, BT>>
FenceJson == Fence \o Chars("json")

\* str.strip() with no argument removes these (the ones the model's texts use).
Whitespace == {" ", NL, "\t", "\r"}

MinOf(S) == CHOOSE x \in S : \A y \in S : x <= y
MaxOf(S) == CHOOSE x \in S : \A y \in S : x >= y

\* s.strip()
Strip(s) ==
    LET keep == {i \in 1..Len(s) : s[i] \notin Whitespace}
    IN  IF keep = {} THEN <<>> ELSE SubSeq(s, MinOf(keep), MaxOf(keep))

\* Whether sub occurs in s at the 0-based offset i.
OccursAt(s, sub, i) ==
    /\ i >= 0
    /\ i + Len(sub) <= Len(s)
    /\ \A k \in 1..Len(sub) : s[i + k] = sub[k]

\* s.find(sub, start): the lowest 0-based offset >= start where sub occurs, or -1.
Find(s, sub, start) ==
    LET hits == {i \in start..(Len(s) - Len(sub)) : OccursAt(s, sub, i)}
    IN  IF hits = {} THEN -1 ELSE MinOf(hits)

\* sub in s
Contains(s, sub) == Find(s, sub, 0) # -1

\* s.startswith(p)
StartsWith(s, p) == OccursAt(s, p, 0)

\* A slice bound as Python normalises it: a negative bound counts from the end.
SliceBound(n, i) ==
    IF i < 0 THEN (IF i + n < 0 THEN 0 ELSE i + n)
    ELSE IF i > n THEN n ELSE i

\* s[a:b], 0-based, b exclusive
Slice(s, a, b) ==
    LET lo == SliceBound(Len(s), a)
        hi == SliceBound(Len(s), b)
    IN  IF lo >= hi THEN <<>> ELSE SubSeq(s, lo + 1, hi)

\* s.split("\n")
RECURSIVE SplitLines(_)
SplitLines(s) ==
    LET nl == {i \in 1..Len(s) : s[i] = NL}
    IN  IF nl = {} THEN <<s>>
        ELSE <<SubSeq(s, 1, MinOf(nl) - 1)>>
                 \o SplitLines(SubSeq(s, MinOf(nl) + 1, Len(s)))

\* "\n".join(lines)
RECURSIVE JoinLines(_)
JoinLines(lines) ==
    IF lines = <<>> THEN <<>>
    ELSE IF Len(lines) = 1 THEN lines[1]
    ELSE lines[1] \o <<NL>> \o JoinLines(Tail(lines))

\* ------------------------------------------------------------ json.loads

\* A parsed JSON value:
\*   [t |-> "null"], [t |-> "bool", s |-> text], [t |-> "num", s |-> text],
\*   [t |-> "str", s |-> text], [t |-> "list", items |-> <<value, ...>>],
\*   [t |-> "dict", items |-> <<[k |-> text, v |-> value], ...>>]
\* A dict keeps one entry per key, in insertion order.

JsonNull == [t |-> "null"]
JsonStr(s) == [t |-> "str", s |-> s]
JsonList(items) == [t |-> "list", items |-> items]
JsonDict(items) == [t |-> "dict", items |-> items]

JsonWhitespace == {" ", NL, "\t", "\r"}
Digits == {"0", "1", "2", "3", "4", "5", "6", "7", "8", "9"}
\* Characters a JSON string may not hold unescaped (the parser is strict).
ControlChars == {NL, "\t", "\r"}

\* key in d, for a dict d
HasKey(d, key) == \E i \in 1..Len(d.items) : d.items[i].k = key

\* d[key], for a dict d that has the key
Get(d, key) == d.items[CHOOSE i \in 1..Len(d.items) : d.items[i].k = key].v

\* d[key] = value: a key already present keeps its place and takes the value.
DictPut(items, key, value) ==
    IF \E i \in 1..Len(items) : items[i].k = key
    THEN [i \in 1..Len(items) |->
             IF items[i].k = key THEN [k |-> key, v |-> value] ELSE items[i]]
    ELSE Append(items, [k |-> key, v |-> value])

\* The first position >= i that holds no JSON whitespace (Len(s) + 1 at the end).
SkipWS(s, i) ==
    LET stop == {j \in i..Len(s) : s[j] \notin JsonWhitespace}
    IN  IF stop = {} THEN (IF i > Len(s) + 1 THEN i ELSE Len(s) + 1) ELSE MinOf(stop)

ParseFail(msg) == [ok |-> FALSE, val |-> JsonNull, pos |-> 0, msg |-> msg]
ParseOk(val, pos) == [ok |-> TRUE, val |-> val, pos |-> pos, msg |-> ""]

\* s[i] is the opening quote.
ParseString(s, i) ==
    LET close == {j \in (i + 1)..Len(s) : s[j] = Quote}
    IN  IF close = {} THEN ParseFail("Unterminated string")
        ELSE LET j == MinOf(close)
                 body == SubSeq(s, i + 1, j - 1)
             IN  IF \E k \in 1..Len(body) : body[k] \in ControlChars
                 THEN ParseFail("Invalid control character")
                 ELSE ParseOk(JsonStr(body), j + 1)

\* An integer: -?(0|[1-9][0-9]*); s[i] is "-" or a digit.
ParseNumber(s, i) ==
    LET d0 == IF s[i] = "-" THEN i + 1 ELSE i
        nondigit == {j \in d0..Len(s) : s[j] \notin Digits}
        end == IF nondigit = {} THEN Len(s) + 1 ELSE MinOf(nondigit)
    IN  IF end = d0 THEN ParseFail("Expecting value")
        ELSE IF s[d0] = "0" THEN ParseOk([t |-> "num", s |-> SubSeq(s, i, d0)], d0 + 1)
        ELSE ParseOk([t |-> "num", s |-> SubSeq(s, i, end - 1)], end)

ParseLiteral(s, i) ==
    IF OccursAt(s, Chars("null"), i - 1) THEN ParseOk(JsonNull, i + 4)
    ELSE IF OccursAt(s, Chars("true"), i - 1)
        THEN ParseOk([t |-> "bool", s |-> Chars("true")], i + 4)
    ELSE IF OccursAt(s, Chars("false"), i - 1)
        THEN ParseOk([t |-> "bool", s |-> Chars("false")], i + 5)
    ELSE ParseFail("Expecting value")

RECURSIVE ParseValue(_, _), ParseElements(_, _, _), ParseMembers(_, _, _)

\* The value that starts at position i (whitespace already skipped).
ParseValue(s, i) ==
    IF i > Len(s) THEN ParseFail("Expecting value")
    ELSE IF s[i] = Quote THEN ParseString(s, i)
    ELSE IF s[i] = "[" THEN
        LET j == SkipWS(s, i + 1)
        IN  IF j <= Len(s) /\ s[j] = "]" THEN ParseOk(JsonList(<<>>), j + 1)
            ELSE ParseElements(s, j, <<>>)
    ELSE IF s[i] = "{" THEN
        LET j == SkipWS(s, i + 1)
        IN  IF j <= Len(s) /\ s[j] = "}" THEN ParseOk(JsonDict(<<>>), j + 1)
            ELSE ParseMembers(s, j, <<>>)
    ELSE IF s[i] = "-" \/ s[i] \in Digits THEN ParseNumber(s, i)
    ELSE ParseLiteral(s, i)

\* The elements of an array from position i on, after those of acc.
ParseElements(s, i, acc) ==
    LET r == ParseValue(s, i)
    IN  IF ~r.ok THEN r
        ELSE LET j == SkipWS(s, r.pos)
                 items == Append(acc, r.val)
             IN  IF j > Len(s) THEN ParseFail("Expecting ',' delimiter")
                 ELSE IF s[j] = "]" THEN ParseOk(JsonList(items), j + 1)
                 ELSE IF s[j] = "," THEN ParseElements(s, SkipWS(s, j + 1), items)
                 ELSE ParseFail("Expecting ',' delimiter")

\* The members of an object from position i on, after those of acc.
ParseMembers(s, i, acc) ==
    IF i > Len(s) \/ s[i] # Quote
    THEN ParseFail("Expecting property name enclosed in double quotes")
    ELSE LET key == ParseString(s, i)
         IN  IF ~key.ok THEN key
             ELSE LET c == SkipWS(s, key.pos)
                  IN  IF c > Len(s) \/ s[c] # ":" THEN ParseFail("Expecting ':' delimiter")
                      ELSE LET r == ParseValue(s, SkipWS(s, c + 1))
                           IN  IF ~r.ok THEN r
                               ELSE LET j == SkipWS(s, r.pos)
                                        items == DictPut(acc, key.val.s, r.val)
                                    IN  IF j > Len(s) THEN ParseFail("Expecting ',' delimiter")
                                        ELSE IF s[j] = "}" THEN ParseOk(JsonDict(items), j + 1)
                                        ELSE IF s[j] = ","
                                            THEN ParseMembers(s, SkipWS(s, j + 1), items)
                                        ELSE ParseFail("Expecting ',' delimiter")

\* The document s, whose first value parsed as r: nothing but whitespace may follow.
JsonDocument(s, r) ==
    IF ~r.ok THEN r
    ELSE IF SkipWS(s, r.pos) <= Len(s) THEN ParseFail("Extra data")
    ELSE r

\* json.loads(s): [ok, val] and, when it raises JSONDecodeError, its message.
json_loads(s) == JsonDocument(s, ParseValue(s, SkipWS(s, 1)))

\* --------------------------------------------------------- generate_plan

KeyPlan == Chars("plan")
KeyError == Chars("error")
KeyRaw == Chars("raw")

\* The loop with the toggle lost: every line that is no fence line is kept.
RECURSIVE CollectInside_NoToggle(_, _)
CollectInside_NoToggle(lines, in_code_block) ==
    IF lines = <<>> THEN <<>>
    ELSE IF StartsWith(Head(lines), Fence)
        THEN CollectInside_NoToggle(Tail(lines), TRUE)
    ELSE IF in_code_block
        THEN <<Head(lines)>> \o CollectInside_NoToggle(Tail(lines), in_code_block)
    ELSE CollectInside_NoToggle(Tail(lines), in_code_block)

\* The loop over the lines: a line that starts with the fence toggles
\* in_code_block and is dropped; any other line is kept while inside a block.
RECURSIVE CollectInside(_, _)
CollectInside(lines, in_code_block) ==
    IF lines = <<>> THEN <<>>
    ELSE IF StartsWith(Head(lines), Fence)
        THEN CollectInside(Tail(lines), ~in_code_block)
    ELSE IF in_code_block
        THEN <<Head(lines)>> \o CollectInside(Tail(lines), in_code_block)
    ELSE CollectInside(Tail(lines), in_code_block)

\* The text the "```json" branch keeps.
ExtractJsonFence(response_text) ==
    LET start == Find(response_text, FenceJson, 0) + 7
        end == Find(response_text, Fence, start)
    IN  Strip(Slice(response_text, start, end))

\* The text the generic-fence branch keeps.
ExtractGenericFence(response_text) ==
    Strip(JoinLines(CollectInside(SplitLines(response_text), FALSE)))

\* response_text as json.loads receives it, for the model's answer `text`.
ExtractResponseText(text) ==
    LET response_text == Strip(text)
    IN  IF Contains(response_text, FenceJson) THEN ExtractJsonFence(response_text)
        ELSE IF StartsWith(response_text, Fence) THEN ExtractGenericFence(response_text)
        ELSE response_text

\* `"plan" in plan_json and isinstance(plan_json["plan"], list)`:
\* "yes", "no", or "TypeError" when the expression raises.
ValidatePlan(plan_json) ==
    IF plan_json.t = "dict" THEN
        IF HasKey(plan_json, KeyPlan) /\ Get(plan_json, KeyPlan).t = "list"
        THEN "yes" ELSE "no"
    ELSE IF plan_json.t = "list" THEN
        \* membership among the elements, then list["plan"] raises
        IF \E i \in 1..Len(plan_json.items) : plan_json.items[i] = JsonStr(KeyPlan)
        THEN "TypeError" ELSE "no"
    ELSE IF plan_json.t = "str" THEN
        \* substring test, then str["plan"] raises
        IF Contains(plan_json.s, KeyPlan) THEN "TypeError" ELSE "no"
    ELSE "TypeError"    \* `in` on a number, a boolean or None raises

ErrorResult(msg) == JsonDict(<<[k |-> KeyError, v |-> JsonStr(msg)]>>)
ErrorResultRaw(msg, raw) ==
    JsonDict(<<[k |-> KeyError, v |-> JsonStr(msg)], [k |-> KeyRaw, v |-> JsonStr(raw)]>>)

MsgEmptyGoal == <<"Goal cannot be empty.">>
MsgUnexpected == <<"AI returned JSON in an unexpected format.">>
MsgInvalidJson(je) == <<"AI failed to return valid JSON: ", je>>
MsgCallFailed(e) == <<"An error occurred while calling the AI model: ", e>>

\* What generate_plan returns once json.loads(response_text) gave `parsed`: the
\* inner except for a JSONDecodeError, the outer one for a TypeError.
ValidateParsed(parsed, response_text) ==
    IF ~parsed.ok THEN ErrorResultRaw(MsgInvalidJson(parsed.msg), response_text)
    ELSE IF ValidatePlan(parsed.val) = "yes" THEN parsed.val
    ELSE IF ValidatePlan(parsed.val) = "no" THEN ErrorResultRaw(MsgUnexpected, response_text)
    ELSE ErrorResult(MsgCallFailed("TypeError"))

\* The inner try: json.loads and the validation, on the extracted text.
ParseAndValidate(response_text) == ValidateParsed(json_loads(response_text), response_text)

\* generate_plan(goal, model_name), with `ai` what the model call does:
\* [raises |-> TRUE, exc |-> message] or [raises |-> FALSE, text |-> response.text].
generate_plan(goal, model_name, ai) ==
    IF goal = <<>> THEN ErrorResult(MsgEmptyGoal)
    ELSE IF ai.raises THEN ErrorResult(MsgCallFailed(ai.exc))
    ELSE ParseAndValidate(ExtractResponseText(ai.text))

\* Whether generate_plan reaches json.loads.
ReachesParser(goal, ai) == goal # <<>> /\ ~ai.raises

\* ------------------------------------------------- the extractor's inputs

\* How many lines an AI answer of the model has at most.
MaxLines == 3

DocPlanEmpty == Chars("{\"plan\": [ ]}")
DocPlanOne == Chars("{\"plan\":[{\"task_id\":1}]}")
DocWrongKey == Chars("{\"tasks\":[]}")
DocPlanNotList == Chars("{\"plan\":5}")
DocNotJson == Chars("not json")
DocNumber == Chars("5")
DocNull == Chars("null")
DocString == Chars("\"plan\"")
DocList == Chars("[\"plan\"]")

\* The lines an AI answer is made of.
AnswerLines ==
    { <<>>, Fence, FenceJson, FenceJson \o DocPlanEmpty \o Fence,
      DocPlanEmpty, DocPlanOne, DocWrongKey, DocPlanNotList, DocNotJson,
      DocNumber, DocNull, DocString, DocList }

AnswerTexts ==
    { JoinLines(ls) : ls \in UNION { [1..n -> AnswerLines] : n \in 1..MaxLines } }

\* What the model call does: it raises, or it answers with a text.
AiRaises(e) == [raises |-> TRUE, text |-> <<>>, exc |-> e]
AiAnswers(text) == [raises |-> FALSE, text |-> text, exc |-> ""]

ApiErrors == {"429 quota exceeded"}

GoalShop == Chars("Launch a Shop")
ModelIds ==
    { "models/gemini-2.0-flash-exp", "models/gemini-2.5-flash",
      "models/gemini-2.5-pro", "models/gemini-2.0-flash" }
DefaultModel == "models/gemini-2.0-flash-exp"

\* ----------------------------------------------------- the remote table

\* The store assigns id and created_at. Its clock advances with every insert, so
\* no two rows share a created_at; ids are never reused.
NewRow(id, now, data) ==
    [id |-> id, created_at |-> now, goal |-> data.goal, model_used |-> data.model_used,
     plan_json |-> data.plan_json]

\* .insert(data)
StoreInsert(table, id, now, data) == table \cup {NewRow(id, now, data)}

\* The order with desc=True lost: oldest first.
RECURSIVE OrderByCreatedAtAsc(_)
OrderByCreatedAtAsc(table) ==
    IF table = {} THEN <<>>
    ELSE LET oldest == CHOOSE r \in table : \A q \in table : q.created_at >= r.created_at
         IN  <<oldest>> \o OrderByCreatedAtAsc(table \ {oldest})

\* .order("created_at", desc=True)
RECURSIVE OrderByCreatedAtDesc(_)
OrderByCreatedAtDesc(table) ==
    IF table = {} THEN <<>>
    ELSE LET newest == CHOOSE r \in table : \A q \in table : q.created_at <= r.created_at
         IN  <<newest>> \o OrderByCreatedAtDesc(table \ {newest})

\* .limit(n)
Limit(seq, n) == IF Len(seq) <= n THEN seq ELSE SubSeq(seq, 1, n)

AsciiUpper == Chars("ABCDEFGHIJKLMNOPQRSTUVWXYZ")
AsciiLower == Chars("abcdefghijklmnopqrstuvwxyz")
Lower(c) ==
    IF \E i \in 1..26 : AsciiUpper[i] = c
    THEN AsciiLower[CHOOSE i \in 1..26 : AsciiUpper[i] = c]
    ELSE c

\* s ILIKE pattern: "%" matches any run of characters, "_" any one character,
\* every other character itself, letter case ignored.
RECURSIVE ILikeMatch(_, _)
ILikeMatch(pattern, s) ==
    IF pattern = <<>> THEN s = <<>>
    ELSE IF Head(pattern) = "%"
        THEN ILikeMatch(Tail(pattern), s) \/ (s # <<>> /\ ILikeMatch(pattern, Tail(s)))
    ELSE /\ s # <<>>
         /\ (Head(pattern) = "_" \/ Lower(Head(pattern)) = Lower(Head(s)))
         /\ ILikeMatch(Tail(pattern), Tail(s))

\* .ilike("goal", pattern)
StoreILikeGoal(table, pattern) == { r \in table : ILikeMatch(pattern, r.goal) }

\* A delete whose filter compares the wrong way round.
StoreDeleteNeqId(table, plan_id) == { r \in table : r.id = plan_id }

\* .delete().eq("id", plan_id)
StoreDeleteEqId(table, plan_id) == { r \in table : r.id # plan_id }

\* --------------------------------------------------- database functions

\* What the remote call of one function does: it completes, or it raises the
\* exception exc; a call that raises may or may not have reached the table.
NoFault == [raises |-> FALSE, exc |-> [kind |-> "", msg |-> ""], applied |-> TRUE]
Fault(kind, msg, applied) ==
    [raises |-> TRUE, exc |-> [kind |-> kind, msg |-> msg], applied |-> applied]

\* The classes the remote call raises; all derive from Exception.
StoreExceptionKinds == {"APIError", "ConnectError"}

\* An except clause that names one class only.
CaughtByExceptAPIError(exc) == exc.kind = "APIError"

\* `except Exception as e`
CaughtByExceptException(exc) == exc.kind \in StoreExceptionKinds

\* str(e)
ExcStr(exc) == exc.msg

\* What a function hands its caller: a dict, or (propagates) the exception. A
\* key the dict lacks is modelled by the empty value.
Success(data) == [propagates |-> FALSE, success |-> TRUE, data |-> data, error |-> ""]
SuccessNoData == [propagates |-> FALSE, success |-> TRUE, data |-> <<>>, error |-> ""]
Failure(exc) ==
    IF CaughtByExceptException(exc)
    THEN [propagates |-> FALSE, success |-> FALSE, data |-> <<>>, error |-> ExcStr(exc)]
    ELSE [propagates |-> TRUE, success |-> FALSE, data |-> <<>>, error |-> ""]

\* save_plan_to_db(goal, model_name, plan_json): what it returns
save_plan_to_db(table, id, now, goal, model_name, plan_json, fault) ==
    LET data == [goal |-> goal, model_used |-> model_name, plan_json |-> plan_json]
    IN  IF fault.raises THEN Failure(fault.exc)
        ELSE Success(<<NewRow(id, now, data)>>)

\* save_plan_to_db: the table after the call
save_plan_rows(table, id, now, goal, model_name, plan_json, fault) ==
    LET data == [goal |-> goal, model_used |-> model_name, plan_json |-> plan_json]
    IN  IF fault.applied THEN StoreInsert(table, id, now, data) ELSE table

\* get_recent_plans(limit)
get_recent_plans(table, limit, fault) ==
    IF fault.raises THEN Failure(fault.exc)
    ELSE Success(Limit(OrderByCreatedAtDesc(table), limit))

\* search_plans_by_goal(search_term)
search_plans_by_goal(table, search_term, fault) ==
    IF fault.raises THEN Failure(fault.exc)
    ELSE Success(OrderByCreatedAtDesc(StoreILikeGoal(table, <<"%">> \o search_term \o <<"%">>)))

\* delete_plan(plan_id): what it returns
delete_plan(table, plan_id, fault) ==
    IF fault.raises THEN Failure(fault.exc) ELSE SuccessNoData

\* delete_plan: the table after the call
delete_plan_rows(table, plan_id, fault) ==
    IF fault.applied THEN StoreDeleteEqId(table, plan_id) ELSE table

\* ------------------------------------------------------------ display_plan

KeyTaskId == Chars("task_id")

\* bool(v) for a parsed value
Truthy(v) ==
    IF v.t = "null" THEN FALSE
    ELSE IF v.t = "bool" THEN v.s = Chars("true")
    ELSE IF v.t = "num" THEN \E i \in 1..Len(v.s) : v.s[i] \notin {"0", "-"}
    ELSE IF v.t = "str" THEN v.s # <<>>
    ELSE v.items # <<>>

DigitVal(c) == CHOOSE n \in 0..9 : Chars("0123456789")[n + 1] = c

RECURSIVE NatVal(_)
NatVal(digits) ==
    IF digits = <<>> THEN 0
    ELSE NatVal(SubSeq(digits, 1, Len(digits) - 1)) * 10 + DigitVal(digits[Len(digits)])

\* The integer a parsed number or boolean stands for.
IntVal(v) ==
    IF v.t = "bool" THEN (IF v.s = Chars("true") THEN 1 ELSE 0)
    ELSE IF Head(v.s) = "-" THEN 0 - NatVal(Tail(v.s))
    ELSE NatVal(v.s)

\* x.get("task_id", 0), as the sort key of a task that is a dict
TaskIdKey(task) ==
    IF HasKey(task, KeyTaskId) THEN Get(task, KeyTaskId) ELSE [t |-> "num", s |-> <<"0">>]

\* Whether sorted(tasks, key=...) raises: a task that is no dict has no .get, and
\* keys that are not all numbers do not compare (the model's plans hold integer
\* task_ids or none; two keys are compared only when there are two tasks).
SortRaises(tasks) ==
    \/ \E i \in 1..Len(tasks) : tasks[i].t # "dict"
    \/ /\ Len(tasks) >= 2
       /\ \E i \in 1..Len(tasks) : TaskIdKey(tasks[i]).t \notin {"num", "bool"}

\* `sorted` is stable: a task goes after the tasks whose key is not greater.
InsertByTaskId(sorted, task) ==
    LET before == { i \in 1..Len(sorted) :
                      \A j \in 1..i : IntVal(TaskIdKey(sorted[j])) <= IntVal(TaskIdKey(task)) }
        n == IF before = {} THEN 0 ELSE MaxOf(before)
    IN  SubSeq(sorted, 1, n) \o <<task>> \o SubSeq(sorted, n + 1, Len(sorted))

RECURSIVE SortByTaskId(_)
SortByTaskId(tasks) ==
    IF Len(tasks) <= 1 THEN tasks
    ELSE InsertByTaskId(SortByTaskId(SubSeq(tasks, 1, Len(tasks) - 1)), tasks[Len(tasks)])

\* display_plan(tasks), for a list of tasks: it raises, or it shows the tasks in
\* the order of their task_id (an empty list shows a warning and no task).
display_plan(tasks) ==
    IF tasks = <<>> THEN [raises |-> FALSE, shown |-> <<>>]
    ELSE IF SortRaises(tasks) THEN [raises |-> TRUE, shown |-> <<>>]
    ELSE [raises |-> FALSE, shown |-> SortByTaskId(tasks)]

\* ----------------------------------------------------- the Streamlit script

\* get_recent_plans(20) in the history view
HistoryLimit == 20

\* What a script run does, in order.
EvGenerate(result) == [e |-> "generate", result |-> result]
EvError(msg) == [e |-> "error", msg |-> msg]
EvWarning(msg) == [e |-> "warning", msg |-> msg]
EvSuccess(msg) == [e |-> "success", msg |-> msg]
EvRawOutput(raw) == [e |-> "raw", raw |-> raw]
EvDisplay(shown) == [e |-> "display", shown |-> shown]
EvException == [e |-> "exception"]
EvInsert(goal, model_name, plan_json, ret) ==
    [e |-> "insert", goal |-> goal, model_name |-> model_name, plan_json |-> plan_json,
     ok |-> ret.success]
EvSearch(term, ret) == [e |-> "search", term |-> term, ok |-> ret.success]
EvRecent(limit, ret) == [e |-> "recent", limit |-> limit, ok |-> ret.success]
EvDelete(plan_id, ret) == [e |-> "delete", plan_id |-> plan_id, ok |-> ret.success]
EvRerun == [e |-> "rerun"]

\* What a part of the script leaves behind: its events, whether an uncaught
\* exception ended the run, and the table.
Part(events, aborted, table, id, now) ==
    [events |-> events, aborted |-> aborted, table |-> table, id |-> id, now |-> now]

\* The plan branch of the Generate handler: the result has no "error" key.
ShowAndSave(goal, model_name, result, fault, table, id, now) ==
    LET tasks == Get(result, KeyPlan)
        shown == display_plan(tasks.items)
        saved == save_plan_to_db(table, id, now, goal, model_name, result, fault)
        after == save_plan_rows(table, id, now, goal, model_name, result, fault)
    IN  IF ~Truthy(tasks)
        THEN Part(<<EvGenerate(result), EvWarning("The AI generated an empty plan.")>>,
                  FALSE, table, id, now)
        ELSE IF shown.raises
        THEN Part(<<EvGenerate(result), EvSuccess("Here is your AI-generated action plan:"),
                    EvException>>, TRUE, table, id, now)
        ELSE Part(<<EvGenerate(result), EvSuccess("Here is your AI-generated action plan:"),
                    EvDisplay(shown.shown),
                    EvInsert(goal, model_name, result, saved),
                    IF saved.success THEN EvSuccess("Plan saved to database!")
                    ELSE EvWarning(<<"Plan generated but failed to save: ", saved.error>>)>>,
                  FALSE, after,
                  IF fault.applied THEN id + 1 ELSE id,
                  IF fault.applied THEN now + 1 ELSE now)

\* The Generate handler once generate_plan returned `result`.
ShowResult(goal, model_name, result, fault, table, id, now) ==
    IF HasKey(result, KeyError)
    THEN Part(<<EvGenerate(result), EvError(Get(result, KeyError))>>
                  \o (IF HasKey(result, KeyRaw) /\ Truthy(Get(result, KeyRaw))
                      THEN <<EvRawOutput(Get(result, KeyRaw))>> ELSE <<>>),
              FALSE, table, id, now)
    ELSE IF HasKey(result, KeyPlan)
    THEN ShowAndSave(goal, model_name, result, fault, table, id, now)
    ELSE Part(<<EvGenerate(result), EvWarning("The AI did not return a valid plan.")>>,
              FALSE, table, id, now)

\* The handler of the Generate Plan button.
GenerateClicked(goal, model_name, ai, fault, table, id, now) ==
    IF goal = <<>>
    THEN Part(<<EvWarning("Please enter a goal first.")>>, FALSE, table, id, now)
    ELSE ShowResult(goal, model_name, generate_plan(goal, model_name, ai), fault, table, id,
                    now)

\* The rows of the history view, once the search or the listing returned
\* plans_result (its event is `listed`): every row gets a delete button, and the
\* button clicked for this run (delete_click; 0: none) deletes its row.
ShowPlans(plans_result, listed, triggered, delete_click, del, table_after_delete, table) ==
    IF ~plans_result.success
    THEN [events |-> <<listed, EvError(<<"Failed to load plans: ", plans_result.error>>)>>,
          triggered |-> triggered, buttons |-> {}, rerun |-> FALSE, table |-> table]
    ELSE IF \A i \in 1..Len(plans_result.data) : plans_result.data[i].id # delete_click
    THEN [events |-> <<listed>>, triggered |-> triggered,
          buttons |-> { plans_result.data[i].id : i \in 1..Len(plans_result.data) },
          rerun |-> FALSE, table |-> table]
    ELSE [events |-> <<listed, EvDelete(delete_click, del),
                       IF del.success THEN EvRerun
                       ELSE EvError(<<"Failed to delete: ", del.error>>)>>,
          triggered |-> triggered,
          buttons |-> { plans_result.data[i].id : i \in 1..Len(plans_result.data) },
          rerun |-> del.success, table |-> table_after_delete]

\* The history view with the search flag as the Search button left it: a search
\* when the query is not empty and the flag is set (the flag is then cleared), the
\* listing of the most recent plans otherwise (the flag stays as it is).
SearchOrList(query, flag, delete_click, list_fault, delete_fault, table) ==
    IF query # <<>> /\ flag
    THEN ShowPlans(search_plans_by_goal(table, query, list_fault),
                   EvSearch(query, search_plans_by_goal(table, query, list_fault)),
                   FALSE, delete_click, delete_plan(table, delete_click, delete_fault),
                   delete_plan_rows(table, delete_click, delete_fault), table)
    ELSE ShowPlans(get_recent_plans(table, HistoryLimit, list_fault),
                   EvRecent(HistoryLimit, get_recent_plans(table, HistoryLimit, list_fault)),
                   flag, delete_click, delete_plan(table, delete_click, delete_fault),
                   delete_plan_rows(table, delete_click, delete_fault), table)

\* The history view. clicked_search: the Search button was clicked for this run,
\* which sets the flag before it is read.
HistoryView(query, triggered, clicked_search, delete_click, list_fault, delete_fault, table) ==
    SearchOrList(query, triggered \/ clicked_search, delete_click, list_fault, delete_fault,
                 table)


\* ------------------------------------ Spec: the four database functions

\* How many rows the store is given in a run of the model.
MaxInserts == 2

GoalAxb == Chars("axb")
GoalUnderscore == Chars("a_b")
PlanOne == json_loads(DocPlanOne).val
PlanTwo == json_loads(Chars("{\"plan\":[{\"task_id\":2},{\"task_id\":1}]}")).val

\* The (goal, model, plan) triples the model saves.
SaveInputs ==
    { [goal |-> GoalShop, model_name |-> "models/gemini-2.0-flash-exp", plan_json |-> PlanOne],
      [goal |-> GoalAxb, model_name |-> "models/gemini-2.5-flash", plan_json |-> PlanTwo],
      [goal |-> GoalUnderscore, model_name |-> "models/gemini-2.5-flash", plan_json |-> PlanOne] }

SearchTerms == { <<>>, Chars("shop"), Chars("a_b"), Chars("B") }
Limits == { 1, 2, 20 }
Faults ==
    { NoFault, Fault("APIError", "permission denied", FALSE),
      Fault("ConnectError", "timed out", FALSE), Fault("ConnectError", "timed out", TRUE) }
\* A read changes nothing whether or not it reached the table.
ReadFaults == { f \in Faults : ~f.raises \/ ~f.applied }

StoreEmpty ==
    /\ rows = {}
    /\ next_id = 1
    /\ clock = 1
    /\ db_call = [op |-> "none"]
    /\ deleted = {}

ExtractIdle ==
    /\ response = None
    /\ gen_goal = <<>>
    /\ gen_result = None
    /\ parser_input = None

\* The session of a script that has not run.
UiIdle ==
    /\ goal_input = <<>>
    /\ selected_model = DefaultModel
    /\ search_query = <<>>
    /\ search_triggered = FALSE
    /\ run = [trigger |-> "none", events |-> <<>>, buttons |-> {}, rerun |-> FALSE]

Init == ExtractIdle /\ StoreEmpty /\ UiIdle

SavePlan ==
    \E in \in SaveInputs, fault \in Faults :
        /\ next_id <= MaxInserts
        /\ db_call' = [op |-> "save", args |-> in, fault |-> fault,
                       ret |-> save_plan_to_db(rows, next_id, clock, in.goal, in.model_name,
                                               in.plan_json, fault)]
        /\ rows' = save_plan_rows(rows, next_id, clock, in.goal, in.model_name,
                                  in.plan_json, fault)
        /\ next_id' = IF fault.applied THEN next_id + 1 ELSE next_id
        /\ clock' = IF fault.applied THEN clock + 1 ELSE clock
        /\ UNCHANGED deleted
        /\ UNCHANGED extract_vars
        /\ UNCHANGED ui_vars

GetRecent ==
    \E limit \in Limits, fault \in ReadFaults :
        /\ db_call' = [op |-> "recent", args |-> [limit |-> limit], fault |-> fault,
                       ret |-> get_recent_plans(rows, limit, fault)]
        /\ UNCHANGED <<rows, next_id, clock, deleted>>
        /\ UNCHANGED extract_vars
        /\ UNCHANGED ui_vars

SearchPlans ==
    \E term \in SearchTerms, fault \in ReadFaults :
        /\ db_call' = [op |-> "search", args |-> [search_term |-> term], fault |-> fault,
                       ret |-> search_plans_by_goal(rows, term, fault)]
        /\ UNCHANGED <<rows, next_id, clock, deleted>>
        /\ UNCHANGED extract_vars
        /\ UNCHANGED ui_vars

DeletePlan ==
    \E plan_id \in 1..MaxInserts, fault \in Faults :
        /\ db_call' = [op |-> "delete", args |-> [plan_id |-> plan_id], fault |-> fault,
                       ret |-> delete_plan(rows, plan_id, fault)]
        /\ rows' = delete_plan_rows(rows, plan_id, fault)
        /\ deleted' = IF ~fault.raises /\ (\E r \in rows : r.id = plan_id)
                       THEN deleted \cup {plan_id}
                       ELSE deleted
        /\ UNCHANGED <<next_id, clock>>
        /\ UNCHANGED extract_vars
        /\ UNCHANGED ui_vars

Next == SavePlan \/ GetRecent \/ SearchPlans \/ DeletePlan

Spec == Init /\ [][Next]_vars

\* ----------------------------------------- SpecExtract: generate_plan alone

ExtractInit ==
    /\ response \in { AiAnswers(t) : t \in AnswerTexts } \cup { AiRaises(e) : e \in ApiErrors }
    /\ gen_goal \in { <<>>, GoalShop }
    /\ gen_result = None
    /\ parser_input = None
    /\ StoreEmpty
    /\ UiIdle

\* One call of generate_plan.
CallGeneratePlan ==
    /\ gen_result = None
    /\ gen_result' = generate_plan(gen_goal, DefaultModel, response)
    /\ parser_input' =
           IF ReachesParser(gen_goal, response)
           THEN JsonStr(ExtractResponseText(response.text))
           ELSE None
    /\ UNCHANGED <<response, gen_goal>>
    /\ UNCHANGED store_vars
    /\ UNCHANGED ui_vars

ExtractNext == CallGeneratePlan

SpecExtract == ExtractInit /\ [][ExtractNext]_vars

\* ------------------------------------------------ claims on generate_plan

\* generate_plan got as far as json.loads, on the text it extracted.
Parsed == parser_input # None
ParseOutcome == json_loads(parser_input.s)
IsPlanDict(v) == v.t = "dict" /\ HasKey(v, KeyPlan) /\ Get(v, KeyPlan).t = "list"

\* C2: whenever parsing fails, generate_plan returns the "invalid JSON" failure
\* with the parser's error detail, and the raw text attached to it is the AI's
\* original response text, unchanged.
C2_InvalidJsonKeepsOriginalText ==
    (Parsed /\ ~ParseOutcome.ok) =>
        /\ HasKey(gen_result, KeyError)
        /\ Get(gen_result, KeyError) = JsonStr(MsgInvalidJson(ParseOutcome.msg))
        /\ HasKey(gen_result, KeyRaw)
        /\ Get(gen_result, KeyRaw) = JsonStr(response.text)

\* C3: whenever the extracted text parses, whatever the top-level value is: a
\* value without the key "plan" mapped to a list gives the "unexpected format"
\* failure with a raw text attached, and a value with it is returned unchanged.
C3_ParsedValueIsValidated ==
    (Parsed /\ ParseOutcome.ok) =>
        IF IsPlanDict(ParseOutcome.val)
        THEN gen_result = ParseOutcome.val
        ELSE /\ HasKey(gen_result, KeyError)
             /\ Get(gen_result, KeyError) = JsonStr(MsgUnexpected)
             /\ HasKey(gen_result, KeyRaw)

\* The content after the first "```json" of text, up to the first "```" that
\* follows it, or to the end of the text when none follows.
JsonFenceContent(text) ==
    LET open == Find(text, FenceJson, 0) + Len(FenceJson)
        close == Find(text, Fence, open)
    IN  SubSeq(text, open + 1, IF close = -1 THEN Len(text) ELSE close)

\* C4: for a response that contains "```json", json.loads receives the trimmed
\* content between the first "```json" and the first "```" after it, or up to
\* the end of the text when no "```" follows.
C4_JsonFenceHandsContent ==
    (Parsed /\ Contains(response.text, FenceJson)) =>
        parser_input.s = Strip(JsonFenceContent(response.text))

IsFenceLine(line) == StartsWith(line, Fence)

\* The lines of `lines` that are no fence lines and follow an odd number of
\* fence lines, in their order.
InsideBlockLines(lines) ==
    LET inside == { i \in 1..Len(lines) :
                      /\ ~IsFenceLine(lines[i])
                      /\ Cardinality({ j \in 1..(i - 1) : IsFenceLine(lines[j]) }) % 2 = 1 }
        nth(k) == CHOOSE i \in inside : Cardinality({ j \in inside : j <= i }) = k
    IN  [k \in 1..Cardinality(inside) |-> lines[nth(k)]]

\* The trimmed response takes the generic-fence branch.
GenericFenceCase ==
    /\ Parsed
    /\ ~Contains(Strip(response.text), FenceJson)
    /\ StartsWith(Strip(response.text), Fence)

\* C5 as stated: in the generic-fence branch json.loads receives the newline-join
\* of the lines inside a block (no trimming of the joined text).
C5_GenericFenceHandsJoin ==
    GenericFenceCase =>
        parser_input.s = JoinLines(InsideBlockLines(SplitLines(Strip(response.text))))

\* C5, amended: in the generic-fence branch json.loads receives the trimmed
\* newline-join of the lines that are no fence lines and follow an odd number of
\* fence lines, in their order; and one generic fence around a line of valid plan
\* JSON gives that plan.
C5_GenericFenceHandsTrimmedJoin ==
    GenericFenceCase =>
        LET lines == SplitLines(Strip(response.text))
        IN  /\ parser_input.s = Strip(JoinLines(InsideBlockLines(lines)))
            /\ ( /\ Len(lines) = 3
                 /\ lines[1] = Fence /\ lines[3] = Fence
                 /\ ~IsFenceLine(lines[2])
                 /\ json_loads(lines[2]).ok
                 /\ IsPlanDict(json_loads(lines[2]).val) )
               => gen_result = json_loads(lines[2]).val

\* A generic fence around plan JSON, with a line after the block, was parsed.
C5_Witness ==
    /\ GenericFenceCase
    /\ response.text = JoinLines(<<Fence, DocPlanOne, Fence>>)
    /\ gen_result = json_loads(DocPlanOne).val

\* ------------------------------------- claims on the database functions

Called(op) == db_call.op = op

\* C1: in each of the four database functions, an exception raised by the remote
\* call is returned as success = False with error = the exception's message, and
\* is not propagated to the caller.
C1_StoreExceptionBecomesFailure ==
    (~Called("none") /\ db_call.fault.raises) =>
        /\ ~db_call.ret.propagates
        /\ ~db_call.ret.success
        /\ db_call.ret.error = db_call.fault.exc.msg

\* delete_plan returned a failure for a remote call that raised.
C1_Witness ==
    /\ Called("delete")
    /\ db_call.fault.raises
    /\ ~db_call.ret.success
    /\ db_call.ret.error = "timed out"

\* A successful get_recent_plans returns the min(limit, rows) newest rows, newest
\* first.
RecentIsNewestFirst ==
    (Called("recent") /\ db_call.ret.success) =>
        LET data == db_call.ret.data
            limit == db_call.args.limit
        IN  /\ Len(data) = (IF Cardinality(rows) < limit THEN Cardinality(rows) ELSE limit)
            /\ \A i \in 1..Len(data) : data[i] \in rows
            /\ \A i, j \in 1..Len(data) : i < j => data[i].created_at > data[j].created_at
            /\ \A r \in rows :
                   (\A i \in 1..Len(data) : data[i] # r) =>
                       \A i \in 1..Len(data) : data[i].created_at > r.created_at

\* A successful save_plan_to_db directly followed by a successful
\* get_recent_plans(1) gives exactly the saved row.
SaveThenRecentOne ==
    ( /\ Called("save") /\ db_call.ret.success
      /\ db_call'.op = "recent" /\ db_call'.ret.success /\ db_call'.args.limit = 1 )
    => /\ Len(db_call'.ret.data) = 1
       /\ db_call'.ret.data[1].goal = db_call.args.goal
       /\ db_call'.ret.data[1].model_used = db_call.args.model_name
       /\ db_call'.ret.data[1].plan_json = db_call.args.plan_json

\* C6: from any store state, a successful Insert(goal, model, plan) directly
\* followed by ListRecent(1) returns exactly one row, whose goal, model_used and
\* plan_json are the inserted ones; ListRecent returns rows newest first, capped
\* at limit.
C6_InsertThenListRecent == [][SaveThenRecentOne]_vars /\ []RecentIsNewestFirst

\* get_recent_plans(1) returned the newest of two stored rows.
C6_Witness ==
    /\ Called("recent") /\ db_call.ret.success /\ db_call.args.limit = 1
    /\ Cardinality(rows) = 2
    /\ Len(db_call.ret.data) = 1
    /\ db_call.ret.data[1].id = 2

\* A successful delete_plan(id) removes the row with that id, if there is one,
\* and leaves every other row as it was.
DeleteRemovesOnlyTarget ==
    (db_call'.op = "delete" /\ db_call'.ret.success) =>
        /\ \A r \in rows : r.id # db_call'.args.plan_id => r \in rows'
        /\ \A r \in rows' : r \in rows /\ r.id # db_call'.args.plan_id

\* No successful listing holds a row whose id was deleted.
DeletedStayAbsent ==
    ((Called("recent") \/ Called("search")) /\ db_call.ret.success) =>
        \A i \in 1..Len(db_call.ret.data) : db_call.ret.data[i].id \notin deleted

\* C7: DeleteById(id) removes exactly the row with that id: no later listing
\* holds it, every other row stays as it was, and a delete of an id that matches
\* no row changes nothing.
C7_DeleteRemovesExactlyTarget == [][DeleteRemovesOnlyTarget]_vars /\ []DeletedStayAbsent

\* Row 1 of two stored rows was deleted, and a listing then returned row 2 alone.
C7_Witness ==
    /\ Called("recent") /\ db_call.ret.success
    /\ deleted = {1}
    /\ next_id = 3
    /\ Len(db_call.ret.data) = 1
    /\ db_call.ret.data[1].id = 2

\* sub occurs in s, letter case ignored, every character taken literally.
ContainsIgnoreCase(s, sub) ==
    \E i \in 0..(Len(s) - Len(sub)) : \A k \in 1..Len(sub) : Lower(s[i + k]) = Lower(sub[k])

\* C8: SearchByGoal(term) returns exactly the stored rows whose goal contains
\* term as a substring, letter case ignored and the term's characters taken
\* literally, newest first.
C8_SearchIsLiteralSubstring ==
    (Called("search") /\ db_call.ret.success) =>
        db_call.ret.data =
            OrderByCreatedAtDesc(
                { r \in rows : ContainsIgnoreCase(r.goal, db_call.args.search_term) })

\* --------------------------------------------- SpecApp: the script's runs

\* How many plans the script saves in a run of the model.
MaxSaves == 1

GoalDefault == Chars("Launch a minimal e-commerce web app in 4 weeks.")
DocPlanTwo == Chars("{\"plan\":[{\"task_id\":2},{\"task_id\":1}]}")
DocPlanWithError == Chars("{\"plan\":[{\"task_id\":1}],\"error\":\"x\"}")
DocPlanBadTask == Chars("{\"plan\":[1]}")

UiGoals == { <<>>, GoalShop, GoalDefault }
UiModels == { DefaultModel, "models/gemini-2.5-pro" }
UiQueries == { <<>>, Chars("shop") }
UiAnswers ==
    { AiAnswers(JoinLines(<<FenceJson, DocPlanTwo, Fence>>)), AiAnswers(DocPlanEmpty),
      AiAnswers(DocPlanWithError), AiAnswers(DocPlanBadTask), AiAnswers(DocNotJson),
      AiRaises("429 quota exceeded") }
UiFaults == { NoFault, Fault("APIError", "permission denied", FALSE) }

\* The session after the first run of the script, on an empty table.
AppInit ==
    /\ ExtractIdle
    /\ StoreEmpty
    /\ goal_input = GoalDefault
    /\ selected_model = DefaultModel
    /\ search_query = <<>>
    /\ search_triggered = FALSE
    /\ run = [trigger |-> "start", events |-> <<EvRecent(HistoryLimit, Success(<<>>))>>,
              buttons |-> {}, rerun |-> FALSE]

\* One run of the script, top to bottom: the generate view, then the history
\* view unless an uncaught exception ended the run before it.
EndOfRun(trigger, goal, model_name, query, tab1, tab2) ==
    /\ goal_input' = goal
    /\ selected_model' = model_name
    /\ search_query' = query
    /\ next_id' = tab1.id
    /\ clock' = tab1.now
    /\ IF tab1.aborted
       THEN /\ rows' = tab1.table
            /\ search_triggered' = search_triggered
            /\ run' = [trigger |-> trigger, events |-> tab1.events, buttons |-> {},
                       rerun |-> FALSE]
       ELSE /\ rows' = tab2.table
            /\ search_triggered' = tab2.triggered
            /\ run' = [trigger |-> trigger, events |-> tab1.events \o tab2.events,
                       buttons |-> tab2.buttons, rerun |-> tab2.rerun]
    /\ UNCHANGED <<db_call, deleted>>
    /\ UNCHANGED extract_vars

\* The run from the history view on, the generate view having left tab1.
RunHistory(trigger, goal, model_name, query, delete_click, list_fault, delete_fault, tab1) ==
    EndOfRun(trigger, goal, model_name, query, tab1,
             HistoryView(query, search_triggered, trigger = "click_search", delete_click,
                         list_fault, delete_fault, tab1.table))

ScriptRun(trigger, goal, model_name, query, delete_click, ai, save_fault, list_fault, delete_fault) ==
    RunHistory(trigger, goal, model_name, query, delete_click, list_fault, delete_fault,
               IF trigger = "click_generate"
               THEN GenerateClicked(goal, model_name, ai, save_fault, rows, next_id, clock)
               ELSE Part(<<>>, FALSE, rows, next_id, clock))

NoAnswer == AiRaises("")

\* The user edits the goal.
EditGoal ==
    \E goal \in UiGoals \ {goal_input}, lf \in UiFaults :
        /\ ~run.rerun
        /\ ScriptRun("edit_goal", goal, selected_model, search_query, 0, NoAnswer, NoFault, lf,
                     NoFault)

\* The user picks a model.
SelectModel ==
    \E model_name \in UiModels \ {selected_model}, lf \in UiFaults :
        /\ ~run.rerun
        /\ ScriptRun("select_model", goal_input, model_name, search_query, 0, NoAnswer, NoFault,
                     lf, NoFault)

\* The user clicks Generate Plan.
ClickGenerate ==
    \E ai \in UiAnswers, sf \in UiFaults, lf \in UiFaults :
        /\ ~run.rerun
        /\ next_id <= MaxSaves
        /\ ScriptRun("click_generate", goal_input, selected_model, search_query, 0, ai, sf, lf,
                     NoFault)

\* The user edits the search query.
EditQuery ==
    \E query \in UiQueries \ {search_query}, lf \in UiFaults :
        /\ ~run.rerun
        /\ ScriptRun("edit_query", goal_input, selected_model, query, 0, NoAnswer, NoFault, lf,
                     NoFault)

\* The user clicks Search.
ClickSearch ==
    \E lf \in UiFaults :
        /\ ~run.rerun
        /\ ScriptRun("click_search", goal_input, selected_model, search_query, 0, NoAnswer,
                     NoFault, lf, NoFault)

\* The user clicks the delete button of a row the last run listed.
ClickDelete ==
    \E plan_id \in run.buttons, lf \in UiFaults, df \in UiFaults :
        /\ ~run.rerun
        /\ ScriptRun("click_delete", goal_input, selected_model, search_query, plan_id,
                     NoAnswer, NoFault, lf, df)

\* A run with no widget event: the user's rerun, or st.rerun() after a delete.
Rerun ==
    \E lf \in UiFaults :
        ScriptRun("rerun", goal_input, selected_model, search_query, 0, NoAnswer, NoFault, lf,
                  NoFault)

AppNext ==
    EditGoal \/ SelectModel \/ ClickGenerate \/ EditQuery \/ ClickSearch \/ ClickDelete \/ Rerun

SpecApp == AppInit /\ [][AppNext]_vars

\* -------------------------------------------------- claims on the script

\* The places of the events of one kind in the last run.
EventsOf(kind) == { i \in 1..Len(run.events) : run.events[i].e = kind }
OnlyEvent(kind) == run.events[MinOf(EventsOf(kind))]

\* The last run was a click on Generate Plan in which generate_plan returned a
\* validated plan: a dict whose "plan" is a list.
GeneratedPlan ==
    /\ run.trigger = "click_generate"
    /\ EventsOf("generate") # {}
    /\ IsPlanDict(OnlyEvent("generate").result)

\* The run displayed the plan and then made one insert attempt, with the goal,
\* the model and the plan of this run; the insert's outcome only adds a message.
DisplayedThenSavedOnce ==
    /\ Cardinality(EventsOf("display")) = 1
    /\ Cardinality(EventsOf("insert")) = 1
    /\ MinOf(EventsOf("display")) < MinOf(EventsOf("insert"))
    /\ Len(OnlyEvent("display").shown) = Len(Get(OnlyEvent("generate").result, KeyPlan).items)
    /\ OnlyEvent("insert").goal = goal_input
    /\ OnlyEvent("insert").model_name = selected_model
    /\ OnlyEvent("insert").plan_json = OnlyEvent("generate").result
    /\ run.events[MinOf(EventsOf("insert")) + 1].e =
           (IF OnlyEvent("insert").ok THEN "success" ELSE "warning")

\* C9 as stated: every Generate action whose validation succeeds displays the
\* plan and then makes exactly one Insert attempt with the goal, the model and
\* the plan; no other Generate action attempts an Insert.
C9_EveryPlanDisplayedAndSaved ==
    run.trigger = "click_generate" =>
        IF GeneratedPlan THEN DisplayedThenSavedOnce ELSE EventsOf("insert") = {}

\* C10: a run calls SearchByGoal only if the Search button was clicked in that
\* same run with a non-empty query, at most once, and every other run (that
\* reaches the history view) calls ListRecent(20) instead.
C10_SearchOnlyInClickedRun ==
    /\ EventsOf("search") # {} => (run.trigger = "click_search" /\ search_query # <<>>)
    /\ Cardinality(EventsOf("search")) <= 1
    /\ (EventsOf("search") = {} /\ EventsOf("exception") = {}) =>
           /\ Cardinality(EventsOf("recent")) = 1
           /\ OnlyEvent("recent").limit = HistoryLimit

====
